---- MODULE Spec2Model ----
(***************************************************************************)
(* pam_rundir: reference-counted per-user runtime directory.               *)
(*                                                                         *)
(* Paths and file contents are sequences of one-character strings, so the  *)
(* buffer arithmetic of print_filename / memmove and the decimal counter   *)
(* format are modelled byte for byte.  The file system is a function from  *)
(* absolute paths to nodes.  Every process owns one PAM handle.            *)
(***************************************************************************)
EXTENDS Integers, Sequences, FiniteSets, TLC

\* ------------------------------------------------------------------ bounds
\* number of processes (one PAM handle each)
NumProcs == 2
\* session-start is not called once the counter of the user reads this much
\* (the framework may call it again and again on one handle)
MaxCount == 2

Procs == 1..NumProcs

\* --------------------------------------------------------- program constants
MAX_UID_LENGTH == 10
LOCK_RETRIES == 5

NUL == "NUL"
\* an uninitialised byte of a stack buffer (never read: a NUL precedes it)
JUNK == "?"

\* config.h is not part of the sources; the value is the one the comment of
\* print_filename and the test suite use
PARENT_DIR == <<"/", "r", "u", "n", "/", "u", "s", "e", "r", "s">>
VAR_NAME == "XDG_RUNTIME_DIR"
\* sizeof (PARENT_DIR): the characters and the terminating NUL
SizeofParentDir == Len(PARENT_DIR) + 1

PAM_SUCCESS == "PAM_SUCCESS"
PAM_SESSION_ERR == "PAM_SESSION_ERR"
PAM_USER_UNKNOWN == "PAM_USER_UNKNOWN"
PAM_SYSTEM_ERR == "PAM_SYSTEM_ERR"
PAM_BUF_ERR == "PAM_BUF_ERR"
\* a raw -1 leaking out of a hook (no PAM code)
RAW_MINUS_ONE == "-1"

\* the passwd database the identity lookup answers from (getpwnam)
Passwd == {[name |-> "root", uid |-> 0, gid |-> 0],
           [name |-> "alice", uid |-> 1000, gid |-> 1000]}
\* the user names a handle may carry; "ghost" is in no passwd entry
UserNames == {"root", "alice", "ghost"}
\* processes are interchangeable: the handles are listed in this order
UserRank(n) == IF n = "root" THEN 0 ELSE IF n = "alice" THEN 1 ELSE 2

getpwnam(name) == {pw \in Passwd : pw.name = name}

\* ------------------------------------------------------------ integer text
digits == <<"0", "1", "2", "3", "4", "5", "6", "7", "8", "9">>

RECURSIVE intlen(_)
intlen(n) == IF n < 10 THEN 1 ELSE 1 + intlen(n \div 10)

\* print_int (s, n, l): writes the digits of n backwards from s[l-1]
RECURSIVE print_int(_, _, _)
print_int(s, n, l) ==
    LET t == [s EXCEPT ![l] = digits[(n % 10) + 1]]
    IN  IF n < 10 THEN t ELSE print_int(t, n \div 10, l - 1)

\* the value of a digit character, -1 for any other byte
DigitValue(c) ==
    IF \E i \in 1..10 : digits[i] = c
    THEN (CHOOSE i \in 1..10 : digits[i] = c) - 1
    ELSE -1

\* ------------------------------------------------------------ path buffers
\* a char buffer of n uninitialised bytes
Buffer(n) == [i \in 1..n |-> JUNK]

\* memcpy / memmove of n bytes inside one buffer, C offsets (0-based);
\* memmove copies as if through a temporary, so overlap is harmless
memmove(buf, dst, src, n) ==
    [i \in 1..Len(buf) |->
        IF i - 1 >= dst /\ i - 1 < dst + n THEN buf[i - dst + src] ELSE buf[i]]

\* the C string held in a buffer: the bytes before the first NUL
RECURSIVE CStr(_)
CStr(buf) ==
    IF buf = <<>> \/ Head(buf) = NUL THEN <<>> ELSE <<Head(buf)>> \o CStr(Tail(buf))

\* the buffer both hooks declare (char file[MAX_PATH_LEN]); only the bytes
\* the code can touch are kept
FileBufLen == SizeofParentDir + 1 + MAX_UID_LENGTH + 1

\* a counter path that does not depend on the uid
print_filename_shared(s, uid, l) ==
    LET P  == SizeofParentDir - 1
        s1 == [i \in 1..Len(s) |-> IF i <= P THEN PARENT_DIR[i] ELSE s[i]]
        s2 == [s1 EXCEPT ![P + 1] = "/"]
        s3 == [s2 EXCEPT ![SizeofParentDir + 1] = "."]
        s4 == [s3 EXCEPT ![SizeofParentDir + 2] = "0"]
    IN  [s4 EXCEPT ![SizeofParentDir + 3] = NUL]

\* print_filename (s, uid, l): "{PARENT_DIR}/.{uid}"
print_filename(s, uid, l) ==
    LET P  == SizeofParentDir - 1
        s1 == [i \in 1..Len(s) |-> IF i <= P THEN PARENT_DIR[i] ELSE s[i]]
        s2 == [s1 EXCEPT ![P + 1] = "/"]
        s3 == [s2 EXCEPT ![SizeofParentDir + 1] = "."]
        off == SizeofParentDir + 1
        sub == print_int(SubSeq(s3, off + 1, Len(s3)), uid, l)
        s4 == SubSeq(s3, 1, off) \o sub
    IN  [s4 EXCEPT ![SizeofParentDir + 1 + l + 1] = NUL]

\* the counter file path of a uid, as both hooks build it
CounterFile(uid) == CStr(print_filename(Buffer(FileBufLen), uid, intlen(uid)))

\* "Construct runtime dir name by removing the dot before UID": the memmove
\* both hooks apply to the counter path
runtime_dir_name(file, l) ==
    memmove(file, SizeofParentDir - 1, SizeofParentDir, l + 1)

RuntimeDir(uid) ==
    CStr(runtime_dir_name(print_filename(Buffer(FileBufLen), uid, intlen(uid)),
                          intlen(uid)))

\* the path the documentation promises: {PARENT_DIR}/{uid}
DocumentedDir(uid) ==
    PARENT_DIR \o <<"/">> \o print_int(Buffer(intlen(uid)), uid, intlen(uid))

\* --------------------------------------------------------------- file system
\* A node of the file system.  data: a regular file's bytes; target: a
\* symbolic link's (absolute) destination; mode: the three octal digits.
DirNode(owner, group, mode) ==
    [kind |-> "dir", owner |-> owner, group |-> group, mode |-> mode,
     data |-> <<>>, target |-> <<>>]
FileNode(owner, group, mode, data) ==
    [kind |-> "file", owner |-> owner, group |-> group, mode |-> mode,
     data |-> data, target |-> <<>>]
LinkNode(owner, group, target) ==
    [kind |-> "link", owner |-> owner, group |-> group, mode |-> <<7, 7, 7>>,
     data |-> <<>>, target |-> target]

\* strrchr (path, '/'): the index of the last slash, 0 if there is none
LastSlash(p) ==
    CHOOSE i \in 0..Len(p) :
        /\ (i = 0 \/ p[i] = "/")
        /\ \A j \in (i + 1)..Len(p) : p[j] # "/"
Dirname(p) == SubSeq(p, 1, LastSlash(p) - 1)
Basename(p) == SubSeq(p, LastSlash(p) + 1, Len(p))

\* path resolution: every directory component follows symbolic links, the
\* last component only if follow is set.  The root directory is <<>>.
RECURSIVE RealPath(_, _, _)
RealPath(f, p, follow) ==
    LET last(q) == IF follow /\ q \in DOMAIN f /\ f[q].kind = "link"
                   THEN f[q].target ELSE q
    IN  IF p = <<>> THEN <<>>
        ELSE last(RealPath(f, Dirname(p), TRUE) \o <<"/">> \o Basename(p))

Exists(f, p) == RealPath(f, p, TRUE) \in DOMAIN f
IsDir(f, p) == Exists(f, p) /\ f[RealPath(f, p, TRUE)].kind = "dir"

\* the write-permission bit that applies to the caller
MayWrite(node, euid, egid) ==
    LET bit(d) == (d \div 2) % 2 = 1
    IN  \/ euid = 0
        \/ node.owner = euid /\ bit(node.mode[1])
        \/ node.owner # euid /\ node.group = egid /\ bit(node.mode[2])
        \/ node.owner # euid /\ node.group # egid /\ bit(node.mode[3])

Children(f, d) == {c \in DOMAIN f : c # <<>> /\ Dirname(c) = d}
Without(f, p) == [c \in DOMAIN f \ {p} |-> f[c]]

\* every system call answers [fs |-> the new file system, errno |-> "OK" or E...]
sys_mkdir(f, path, mode, euid, egid) ==
    LET at(q, d) ==
            IF q \in DOMAIN f THEN [fs |-> f, errno |-> "EEXIST"]
            ELSE IF d \notin DOMAIN f THEN [fs |-> f, errno |-> "ENOENT"]
            ELSE IF f[d].kind # "dir" THEN [fs |-> f, errno |-> "ENOTDIR"]
            ELSE IF ~MayWrite(f[d], euid, egid) THEN [fs |-> f, errno |-> "EACCES"]
            ELSE [fs |-> (q :> DirNode(euid, egid, mode)) @@ f, errno |-> "OK"]
        in(q) == at(q, Dirname(q))
    IN  in(RealPath(f, path, FALSE))

sys_unlink(f, path, euid, egid) ==
    LET at(q, d) ==
            IF q \notin DOMAIN f \/ q = <<>> THEN [fs |-> f, errno |-> "ENOENT"]
            ELSE IF f[q].kind = "dir" THEN [fs |-> f, errno |-> "EISDIR"]
            ELSE IF ~MayWrite(f[d], euid, egid) THEN [fs |-> f, errno |-> "EACCES"]
            ELSE [fs |-> Without(f, q), errno |-> "OK"]
        in(q) == at(q, Dirname(q))
    IN  in(RealPath(f, path, FALSE))

sys_rmdir(f, path, euid, egid) ==
    LET at(q, d) ==
            IF q \notin DOMAIN f \/ q = <<>> THEN [fs |-> f, errno |-> "ENOENT"]
            ELSE IF f[q].kind # "dir" THEN [fs |-> f, errno |-> "ENOTDIR"]
            ELSE IF Children(f, q) # {} THEN [fs |-> f, errno |-> "ENOTEMPTY"]
            ELSE IF ~MayWrite(f[d], euid, egid) THEN [fs |-> f, errno |-> "EACCES"]
            ELSE [fs |-> Without(f, q), errno |-> "OK"]
        in(q) == at(q, Dirname(q))
    IN  in(RealPath(f, path, FALSE))

\* chown / chmod follow symbolic links; only root or the owner may
sys_chown(f, path, owner, group, euid) ==
    LET at(q) ==
            IF q \notin DOMAIN f THEN [fs |-> f, errno |-> "ENOENT"]
            ELSE IF euid # 0 /\ ~(f[q].owner = euid /\ owner = euid)
                 THEN [fs |-> f, errno |-> "EPERM"]
            ELSE [fs |-> [f EXCEPT ![q].owner = owner, ![q].group = group],
                  errno |-> "OK"]
    IN  at(RealPath(f, path, TRUE))

sys_chmod(f, path, mode, euid) ==
    LET at(q) ==
            IF q \notin DOMAIN f THEN [fs |-> f, errno |-> "ENOENT"]
            ELSE IF euid # 0 /\ f[q].owner # euid THEN [fs |-> f, errno |-> "EPERM"]
            ELSE [fs |-> [f EXCEPT ![q].mode = mode], errno |-> "OK"]
    IN  at(RealPath(f, path, TRUE))

\* open (file, O_RDWR | O_CREAT, 0644)
sys_open_creat(f, path, euid, egid) ==
    LET at(q, d) ==
            IF q \in DOMAIN f
            THEN IF f[q].kind = "dir" THEN [fs |-> f, errno |-> "EISDIR"]
                 ELSE IF ~MayWrite(f[q], euid, egid) THEN [fs |-> f, errno |-> "EACCES"]
                 ELSE [fs |-> f, errno |-> "OK"]
            ELSE IF d \notin DOMAIN f THEN [fs |-> f, errno |-> "ENOENT"]
            ELSE IF f[d].kind # "dir" THEN [fs |-> f, errno |-> "ENOTDIR"]
            ELSE IF ~MayWrite(f[d], euid, egid) THEN [fs |-> f, errno |-> "EACCES"]
            ELSE [fs |-> (q :> FileNode(euid, egid, <<6, 4, 4>>, <<>>)) @@ f,
                  errno |-> "OK"]
        in(q) == at(q, Dirname(q))
    IN  in(RealPath(f, path, TRUE))

\* ------------------------------------------------------------- counter file
\* read_counter over the bytes of the file (the descriptor is fresh, so the
\* offset is 0); each read () returns at most sizeof (buf) = 4 bytes.
\* ioerr: the first read () fails with an errno other than EINTR.
RECURSIVE read_chunks(_, _)
read_chunks(data, count) ==
    IF data = <<>> THEN count
    ELSE LET r   == IF Len(data) < 4 THEN Len(data) ELSE 4
             buf == SubSeq(data, 1, r)
             RECURSIVE acc(_, _)
             acc(c, p) == IF p > r THEN c
                          ELSE acc(c * 10 + DigitValue(buf[p]), p + 1)
         IN  IF count = 0 /\ r = 1 /\ buf[1] = "-" THEN -2
             ELSE IF \E p \in 1..r : DigitValue(buf[p]) < 0 THEN -1
             ELSE read_chunks(SubSeq(data, r + 1, Len(data)), acc(count, 1))

read_counter(data, ioerr) == IF ioerr THEN -1 ELSE read_chunks(data, 0)

\* write (fd, bytes, n) at offset off of a file holding data
WriteAt(data, off, bytes) ==
    [i \in 1..(IF Len(data) > off + Len(bytes) THEN Len(data) ELSE off + Len(bytes)) |->
        IF i > off /\ i <= off + Len(bytes) THEN bytes[i - off] ELSE data[i]]

\* What the system calls of one counter update answer: lseek ok, the results
\* of the successive write () calls (a byte count, or -1; once the script
\* is used up a write transfers everything), ftruncate ok, and the same for
\* the three calls of emergency_invalidate_counter.
IoScript(lseek, writes, trunc, hlseek, hwrite, htrunc) ==
    [lseek |-> lseek, writes |-> writes, trunc |-> trunc,
     hlseek |-> hlseek, hwrite |-> hwrite, htrunc |-> htrunc]
IoAllOk == IoScript(TRUE, <<>>, TRUE, TRUE, TRUE, TRUE)

emergency_invalidate_counter(data, io) ==
    IF ~io.hlseek THEN data
    ELSE IF ~io.hwrite THEN data
    ELSE LET d == WriteAt(data, 0, <<"-">>)
         IN  IF io.htrunc THEN SubSeq(d, 1, 1) ELSE d

\* the for (;;) loop of write_counter; w is declared inside the loop body, so
\* every iteration starts again from w = 0 and from the start of buf
RECURSIVE write_loop(_, _, _, _, _, _)
write_loop(data, off, buf, l, writes, io) ==
    LET w   == 0
        res == IF writes = <<>> THEN l - w ELSE Head(writes)
    IN  IF res < 0
        THEN [data |-> IF w > 0 THEN emergency_invalidate_counter(data, io) ELSE data,
              r |-> -1, done |-> FALSE]
        ELSE LET n  == IF res > l - w THEN l - w ELSE res
                 d  == WriteAt(data, off, SubSeq(buf, w + 1, w + n))
             IN  IF w + n = l THEN [data |-> d, r |-> n, done |-> TRUE]
                 ELSE write_loop(d, off + n, buf, l,
                                 IF writes = <<>> THEN <<>> ELSE Tail(writes), io)

\* write_counter (fd, count): the new bytes of the file and the return value
write_counter(data, count, io) ==
    IF ~io.lseek THEN [data |-> data, r |-> -1]
    ELSE LET l   == IF count >= 0 THEN intlen(count) ELSE 1
             buf == IF count >= 0 THEN print_int(Buffer(l), count, l) ELSE <<"-">>
             wr  == write_loop(data, 0, buf, l, io.writes, io)
         IN  IF ~wr.done THEN [data |-> wr.data, r |-> -1]
             ELSE IF io.trunc THEN [data |-> SubSeq(wr.data, 1, l), r |-> 0]
             ELSE [data |-> emergency_invalidate_counter(wr.data, io), r |-> -1]

\* --------------------------------------------------------- parent directory
\* ensure_parent_dir: the file system afterwards and the return value (1 / 0);
\* S_IRWXU | S_IRWXG | S_IROTH | S_IXOTH under umask (S_IWOTH) is 0775
ensure_parent_dir(f, euid, egid) ==
    LET made(m) ==
            IF m.errno # "OK" /\ m.errno # "EEXIST" THEN [fs |-> f, ret |-> 0]
            ELSE IF m.errno = "EEXIST" /\ ~Exists(f, PARENT_DIR) THEN [fs |-> f, ret |-> 0]
            ELSE IF m.errno = "EEXIST" /\ ~IsDir(f, PARENT_DIR) THEN [fs |-> f, ret |-> 0]
            ELSE [fs |-> sys_chmod(sys_chown(m.fs, PARENT_DIR, 0, 0, euid).fs,
                                   PARENT_DIR, <<7, 5, 5>>, euid).fs,
                  ret |-> 1]
    IN  made(sys_mkdir(f, PARENT_DIR, <<7, 7, 5>>, euid, egid))

\* open_and_lock up to the open (): the parent check and open (O_CREAT).
\* openok: open () does not fail for a reason outside the file system
\* (EMFILE, ENFILE, ...).  fd is the path of the opened file, <<>> for -1.
NoFd == <<>>
open_and_lock_open(f, file, euid, egid, openok) ==
    LET path == Dirname(file)
        opened(mk, o) ==
            IF ~openok \/ o.errno # "OK" THEN [fs |-> mk.fs, fd |-> NoFd]
            ELSE [fs |-> o.fs, fd |-> RealPath(o.fs, file, TRUE)]
        checked(mk) ==
            IF mk.errno # "OK" /\ mk.errno # "EEXIST" THEN [fs |-> f, fd |-> NoFd]
            ELSE IF LastSlash(file) > 0 /\ Exists(f, path) /\ ~IsDir(f, path)
                 THEN [fs |-> f, fd |-> NoFd]
            ELSE opened(mk, sys_open_creat(mk.fs, file, euid, egid))
    IN  checked(IF LastSlash(file) > 0 /\ ~Exists(f, path)
                THEN sys_mkdir(f, path, <<7, 5, 5>>, euid, egid)
                ELSE [fs |-> f, errno |-> "OK"])

\* ------------------------------------------------------------------- rmrf
MAX_PATH_LEN == 4096

\* rmrf (path): the file system afterwards and the return value.  The
\* entries of a directory are visited in the order readdir () yields them;
\* here the order is a fixed arbitrary one.
RECURSIVE rmrf(_, _, _, _)
RECURSIVE rmrf_entries(_, _, _, _, _, _)
rmrf_entries(f, path, names, r, euid, egid) ==
    IF names = {} THEN [fs |-> f, r |-> r]
    ELSE LET name == CHOOSE n \in names : TRUE
             rest == names \ {name}
             full_path == path \o <<"/">> \o name
         IN  IF Len(path) + 1 + Len(name) >= MAX_PATH_LEN
             THEN rmrf_entries(f, path, rest, -1, euid, egid)
             ELSE IF ~Exists(f, full_path)
             THEN rmrf_entries(f, path, rest, -1, euid, egid)
             ELSE IF IsDir(f, full_path)
             THEN LET x == rmrf(f, full_path, euid, egid)
                  IN  rmrf_entries(x.fs, path, rest,
                                   IF x.r # 0 THEN -1 ELSE r, euid, egid)
             ELSE LET u == sys_unlink(f, full_path, euid, egid)
                  IN  rmrf_entries(u.fs, path, rest,
                                   IF u.errno # "OK" THEN -1 ELSE r, euid, egid)

rmrf(f, path, euid, egid) ==
    LET u == sys_unlink(f, path, euid, egid)
    IN  IF u.errno = "OK" THEN [fs |-> u.fs, r |-> 0]
        ELSE IF u.errno # "EISDIR" THEN [fs |-> f, r |-> -1]
        ELSE IF ~IsDir(f, path) THEN [fs |-> f, r |-> -1]
        ELSE IF Len(path) >= MAX_PATH_LEN - 1 THEN [fs |-> f, r |-> -1]
        ELSE LET dir   == RealPath(f, path, TRUE)
                 names == {Basename(c) : c \in Children(f, dir)}
                 e     == rmrf_entries(f, path, names, 0, euid, egid)
                 d     == sys_rmdir(e.fs, path, euid, egid)
             IN  [fs |-> d.fs, r |-> IF d.errno # "OK" THEN -1 ELSE e.r]

\* ------------------------------------------------------------------ state
VARIABLES
    fs,       \* the file system: absolute path -> node
    flock,    \* flock[p]: the file process p holds the exclusive lock of, or NoFd
    handle,   \* handle[p]: the PAM handle of p: user name, module data, environment
    cred,     \* cred[p]: the effective uid and gid of process p
    frame,    \* frame[p]: the locals of the hook p is running, and its position
    net       \* net[u]: the sum, over all counter updates so far, of the value
              \*   written minus the value the writer had last seen there

vars == <<fs, flock, handle, cred, frame, net>>

Uids == {pw.uid : pw \in Passwd}

\* the bytes of a file, <<>> when it does not exist
Data(f, file) == IF file \in DOMAIN f THEN f[file].data ELSE <<>>
SetData(f, file, data) == [f EXCEPT ![file].data = data]

\* a counter as the hooks use it: the sentinel and an unreadable file count 0
Val(c) == IF c < 0 THEN 0 ELSE c
CounterValue(f, uid) == Val(read_counter(Data(f, CounterFile(uid)), FALSE))

pw_of(p) == CHOOSE pw \in Passwd : pw.name = handle[p].user

\* the outcomes of the system calls of a counter update the hooks are run
\* against: all succeed; lseek fails; write fails; ftruncate fails and the
\* repair works; ftruncate fails and the repair's write fails too
IoChoices ==
    {IoAllOk,
     IoScript(FALSE, <<>>, TRUE, TRUE, TRUE, TRUE),
     IoScript(TRUE, <<-1>>, TRUE, TRUE, TRUE, TRUE),
     IoScript(TRUE, <<>>, FALSE, TRUE, TRUE, TRUE),
     IoScript(TRUE, <<>>, FALSE, TRUE, FALSE, TRUE)}

Idle(p) == frame[p].pc = "idle"

\* no hook is running: there are no locals.  rm is the stack of the calls of
\* rmrf in progress (empty wherever rmrf is taken as one step).
IdleFrame ==
    [pc |-> "idle", hook |-> "none", fd |-> NoFd, count |-> 0, r |-> PAM_SUCCESS,
     retries |-> 0, base |-> 0, ev |-> {}, euid0 |-> 0, egid0 |-> 0,
     rm |-> <<>>]

\* the locals at the entry of a hook; "token" records that the handle carried
\* the module data when the hook was called
Entry(p, hook) ==
    [IdleFrame EXCEPT !.hook = hook, !.euid0 = cred[p].euid, !.egid0 = cred[p].egid,
                      !.ev = IF handle[p].token THEN {"token"} ELSE {}]

\* the locals that are dead once a hook is at its done label
AtDone(fr, pc) == [fr EXCEPT !.pc = pc, !.count = 0, !.base = 0, !.retries = 0]

\* a return statement before the done label: the hook is about to return code
Return(p, fr, code) ==
    frame' = [frame EXCEPT ![p] =
                 [AtDone(fr, IF fr.hook = "open" THEN "o_return" ELSE "c_return")
                      EXCEPT !.r = code]]

\* what the hook at a return statement or at its done label hands to the
\* framework (lines 561 and 738)
ReturnCode(fr) ==
    IF fr.pc = "c_done"
    THEN IF fr.r = PAM_SUCCESS THEN PAM_SUCCESS ELSE PAM_SESSION_ERR
    ELSE fr.r
Returning(p) == frame[p].pc \in {"o_return", "o_done", "c_return", "c_done"}

\* The file system a machine boots into: / and /run belong to root.  The
\* parent directory may be missing, present, or the path may be taken by a
\* regular file; a user's runtime path may already be there (the hooks
\* tolerate EEXIST).
BootFs ==
    (<<>> :> DirNode(0, 0, <<7, 5, 5>>))
    @@ (Dirname(PARENT_DIR) :> DirNode(0, 0, <<7, 5, 5>>))
ParentStates == {"absent", "file"}
WithParent(f, st) ==
    IF st = "dir" THEN (PARENT_DIR :> DirNode(0, 0, <<7, 5, 5>>)) @@ f
    ELSE IF st = "file" THEN (PARENT_DIR :> FileNode(0, 0, <<6, 4, 4>>, <<>>)) @@ f
    ELSE f
WithRuntimeDirs(f, pre) ==
    [q \in DOMAIN f \cup {RuntimeDir(u) : u \in pre} |->
        IF q \in DOMAIN f THEN f[q]
        ELSE LET u == CHOOSE u \in pre : RuntimeDir(u) = q
             IN  DirNode(u, u, <<7, 0, 0>>)]

Init ==
    /\ \E st \in ParentStates, pre \in SUBSET (Uids \ {0}) :
          fs = WithRuntimeDirs(WithParent(BootFs, st), pre)
    /\ flock = [p \in Procs |-> NoFd]
    /\ handle \in [Procs -> {[user |-> n, token |-> FALSE, env |-> <<>>] : n \in UserNames}]
    /\ \A p \in Procs, q \in Procs : p < q => UserRank(handle[p].user) <= UserRank(handle[q].user)
    /\ cred = [p \in Procs |-> [euid |-> 0, egid |-> 0]]
    /\ frame = [p \in Procs |-> IdleFrame]
    /\ net = [u \in Uids |-> 0]

\* ---------------------------------------------------------- the lock loop
\* a lock loop that takes flock () to have succeeded whatever it answers
open_and_lock_flock_unchecked(p, next, hard) ==
    /\ flock' = [flock EXCEPT ![p] = frame[p].fd]
    /\ frame' = [frame EXCEPT ![p] = [frame[p] EXCEPT !.pc = next, !.retries = 0]]

\* a lock loop without the retries < LOCK_RETRIES bound
open_and_lock_flock_unbounded(p, next, hard) ==
    LET fr == frame[p]
    IN  IF \E q \in Procs : flock[q] = fr.fd
        THEN /\ frame' = [frame EXCEPT ![p] = [fr EXCEPT !.retries = @ + 1]]
             /\ UNCHANGED flock
        ELSE /\ flock' = [flock EXCEPT ![p] = fr.fd]
             /\ frame' = [frame EXCEPT ![p] = [fr EXCEPT !.pc = next, !.retries = 0]]

\* One iteration of the flock loop of open_and_lock (lines 218-237): the
\* lock is taken if no other open file description holds it; otherwise
\* (EWOULDBLOCK) the caller sleeps and counts a retry, and after
\* LOCK_RETRIES of them closes the descriptor and fails.  hard: flock fails
\* with another errno.
open_and_lock_flock(p, next, hard) ==
    LET fr == frame[p]
        busy == \E q \in Procs : flock[q] = fr.fd
    IN  IF hard
        THEN /\ Return(p, [fr EXCEPT !.fd = NoFd], PAM_SESSION_ERR)
             /\ UNCHANGED flock
        ELSE IF ~busy
        THEN /\ flock' = [flock EXCEPT ![p] = fr.fd]
             /\ frame' = [frame EXCEPT ![p] = [fr EXCEPT !.pc = next, !.retries = 0]]
        ELSE IF fr.retries + 1 < LOCK_RETRIES
        THEN /\ frame' = [frame EXCEPT ![p] = [fr EXCEPT !.retries = @ + 1]]
             /\ UNCHANGED flock
        ELSE /\ Return(p, [fr EXCEPT !.fd = NoFd, !.ev = @ \cup {"timeout"}],
                       PAM_SESSION_ERR)
             /\ UNCHANGED flock

\* the part both hooks share between the user lookup and the lock loop:
\* intlen, ensure_parent_dir, print_filename, open_and_lock up to open ().
\* Answers the new file system and either a return code or the descriptor.
hook_prologue(p, openok) ==
    LET pws == getpwnam(handle[p].user)
        uid == pw_of(p).uid
        l   == intlen(uid)
        \* fd = open_and_lock (file)
        locked(o) ==
            IF o.fd = NoFd
            THEN [fs |-> o.fs, code |-> PAM_SESSION_ERR, fd |-> NoFd]
            ELSE [fs |-> o.fs, code |-> PAM_SUCCESS, fd |-> o.fd]
        \* if (!ensure_parent_dir ()) return PAM_SESSION_ERR; print_filename
        ensured(e) ==
            IF e.ret = 0
            THEN [fs |-> e.fs, code |-> PAM_SESSION_ERR, fd |-> NoFd]
            ELSE locked(open_and_lock_open(
                     e.fs, CStr(print_filename(Buffer(FileBufLen), uid, l)),
                     cred[p].euid, cred[p].egid, openok))
    IN  IF cred[p].euid # 0 THEN [fs |-> fs, code |-> PAM_SESSION_ERR, fd |-> NoFd]
        ELSE IF pws = {} THEN [fs |-> fs, code |-> PAM_USER_UNKNOWN, fd |-> NoFd]
        ELSE IF l <= 0 \/ l > MAX_UID_LENGTH
        THEN [fs |-> fs, code |-> PAM_SYSTEM_ERR, fd |-> NoFd]
        ELSE ensured(ensure_parent_dir(fs, cred[p].euid, cred[p].egid))

\* ------------------------------------------------------ pam_sm_open_session
OpenBegin(p) ==
    /\ Idle(p)
    /\ \A pw \in getpwnam(handle[p].user) : CounterValue(fs, pw.uid) < MaxCount
    /\ \E openok \in BOOLEAN : \E pro \in {hook_prologue(p, openok)} :
          LET fr == Entry(p, "open")
          IN  /\ fs' = pro.fs
              /\ IF pro.fd = NoFd
                 THEN Return(p, fr, pro.code)
                 ELSE frame' = [frame EXCEPT ![p] =
                                   [fr EXCEPT !.pc = "o_lock", !.fd = pro.fd]]
    /\ UNCHANGED <<flock, handle, cred, net>>

OpenLock(p) ==
    /\ frame[p].pc = "o_lock"
    /\ \E hard \in BOOLEAN : open_and_lock_flock(p, "o_read", hard)
    /\ UNCHANGED <<fs, handle, cred, net>>

\* a read step that lets the -2 of read_counter through as the count
OpenRead_raw(p) ==
    /\ frame[p].pc = "o_read"
    /\ \E ioerr \in BOOLEAN :
          LET fr == frame[p]
              c  == read_counter(Data(fs, fr.fd), ioerr)
          IN  frame' = [frame EXCEPT ![p] =
                  IF c < 0 /\ c # -2
                  THEN [AtDone(fr, "o_done") EXCEPT !.r = PAM_SESSION_ERR]
                  ELSE [fr EXCEPT !.count = c, !.base = Val(c), !.pc = "o_write"]]
    /\ UNCHANGED <<fs, flock, handle, cred, net>>

\* a read step that starts from 0 when the counter cannot be parsed
OpenRead_lenient(p) ==
    /\ frame[p].pc = "o_read"
    /\ \E ioerr \in BOOLEAN :
          LET fr == frame[p]
              c  == read_counter(Data(fs, fr.fd), ioerr)
          IN  frame' = [frame EXCEPT ![p] =
                  [fr EXCEPT !.count = Val(c), !.base = Val(c), !.pc = "o_write"]]
    /\ UNCHANGED <<fs, flock, handle, cred, net>>

\* lines 627-637
OpenRead(p) ==
    /\ frame[p].pc = "o_read"
    /\ \E ioerr \in BOOLEAN :
          LET fr == frame[p]
              c  == read_counter(Data(fs, fr.fd), ioerr)
          IN  frame' = [frame EXCEPT ![p] =
                  IF c < 0 /\ c # -2
                  THEN [AtDone(fr, "o_done") EXCEPT !.r = PAM_SESSION_ERR]
                  ELSE [fr EXCEPT !.count = IF c = -2 THEN 0 ELSE c,
                                  !.base = Val(c), !.pc = "o_write"]]
    /\ UNCHANGED <<fs, flock, handle, cred, net>>

\* a counter update by p: the file, net and the writer's view of the value
CounterUpdate(p, w) ==
    LET fr  == frame[p]
        uid == pw_of(p).uid
        new == Val(read_counter(w.data, FALSE))
    IN  /\ fs' = SetData(fs, fr.fd, w.data)
        /\ net' = [net EXCEPT ![uid] = @ + new - fr.base]

\* lines 647-652: r = write_counter (fd, count + 1); a failure leaves through
\* done with r as write_counter returned it
OpenWrite(p) ==
    /\ frame[p].pc = "o_write"
    /\ \E io \in IoChoices :
          LET fr == frame[p]
              w  == write_counter(Data(fs, fr.fd), fr.count + 1, io)
          IN  /\ CounterUpdate(p, w)
              /\ frame' = [frame EXCEPT ![p] =
                     IF w.r < 0
                     THEN [AtDone(fr, "o_done") EXCEPT !.r = RAW_MINUS_ONE,
                                                       !.ev = @ \cup {"wfail"}]
                     ELSE [fr EXCEPT !.base = Val(read_counter(w.data, FALSE)),
                                     !.r = PAM_SUCCESS, !.pc = "o_flag"]]
    /\ UNCHANGED <<flock, handle, cred>>

\* lines 654-669: malloc and pam_set_data
OpenFlag(p) ==
    /\ frame[p].pc = "o_flag"
    /\ \E mallocok \in BOOLEAN, setok \in BOOLEAN :
          LET fr == frame[p]
          IN  IF ~mallocok
              THEN /\ frame' = [frame EXCEPT ![p] =
                          [fr EXCEPT !.r = PAM_BUF_ERR, !.pc = "o_revert",
                                     !.ev = @ \cup {"nomem"}]]
                   /\ UNCHANGED handle
              ELSE IF ~setok
              THEN /\ frame' = [frame EXCEPT ![p] =
                          [fr EXCEPT !.r = PAM_BUF_ERR, !.pc = "o_revert"]]
                   /\ UNCHANGED handle
              ELSE /\ frame' = [frame EXCEPT ![p] =
                          [fr EXCEPT !.r = PAM_SUCCESS, !.pc = "o_drop"]]
                   /\ handle' = [handle EXCEPT ![p].token = TRUE]
    /\ UNCHANGED <<fs, flock, cred, net>>

\* a privilege drop that does not look at what setegid and seteuid answer
OpenDrop_unchecked(p) ==
    /\ frame[p].pc = "o_drop"
    /\ \E gidok \in BOOLEAN, uidok \in BOOLEAN :
          cred' = [cred EXCEPT ![p] =
                      [euid |-> IF gidok /\ uidok THEN pw_of(p).uid ELSE @.euid,
                       egid |-> IF gidok THEN pw_of(p).gid ELSE @.egid]]
    /\ frame' = [frame EXCEPT ![p].pc = "o_mkdir"]
    /\ UNCHANGED <<fs, flock, handle, net>>

\* a privilege drop before which the counter file is closed
OpenDrop_unlocked(p) ==
    /\ frame[p].pc = "o_drop"
    /\ cred' = [cred EXCEPT ![p] = [euid |-> pw_of(p).uid, egid |-> pw_of(p).gid]]
    /\ flock' = [flock EXCEPT ![p] = NoFd]
    /\ frame' = [frame EXCEPT ![p].pc = "o_mkdir"]
    /\ UNCHANGED <<fs, handle, net>>

\* lines 671-676: setegid (gid) < 0 || seteuid (uid) < 0
OpenDrop(p) ==
    /\ frame[p].pc = "o_drop"
    /\ \E gidok \in BOOLEAN, uidok \in BOOLEAN :
          LET fr == frame[p]
              pw == pw_of(p)
          IN  IF ~gidok
              THEN /\ frame' = [frame EXCEPT ![p] =
                          [fr EXCEPT !.r = PAM_SESSION_ERR, !.pc = "o_revert",
                                     !.ev = @ \cup {"dropfail"}]]
                   /\ UNCHANGED cred
              ELSE IF ~uidok
              THEN /\ frame' = [frame EXCEPT ![p] =
                          [fr EXCEPT !.r = PAM_SESSION_ERR, !.pc = "o_revert",
                                     !.ev = @ \cup {"dropfail"}]]
                   /\ cred' = [cred EXCEPT ![p].egid = pw.gid]
              ELSE /\ frame' = [frame EXCEPT ![p] = [fr EXCEPT !.pc = "o_mkdir"]]
                   /\ cred' = [cred EXCEPT ![p] = [euid |-> pw.uid, egid |-> pw.gid]]
    /\ UNCHANGED <<fs, flock, handle, net>>

\* lines 639-645 and 678-683: mkdir (runtime_dir, S_IRWXU)
OpenMkdir(p) ==
    /\ frame[p].pc = "o_mkdir"
    /\ LET fr == frame[p]
           uid == pw_of(p).uid
           l   == intlen(uid)
           file == print_filename(Buffer(FileBufLen), uid, l)
           runtime_dir == CStr(runtime_dir_name(file, l))
           m   == sys_mkdir(fs, runtime_dir, <<7, 0, 0>>, cred[p].euid, cred[p].egid)
       IN  /\ fs' = m.fs
           /\ frame' = [frame EXCEPT ![p] =
                  IF m.errno # "OK" /\ m.errno # "EEXIST"
                  THEN [fr EXCEPT !.r = PAM_SESSION_ERR, !.pc = "o_restore",
                                  !.ev = @ \cup {"mkdir", "mkfail"}]
                  ELSE [fr EXCEPT !.pc = "o_env", !.ev = @ \cup {"mkdir"}]]
    /\ UNCHANGED <<flock, handle, cred, net>>

\* a pam_putenv failure that leaves through done without the rollback
OpenEnv_norollback(p) ==
    /\ frame[p].pc = "o_env"
    /\ frame' = [frame EXCEPT ![p] =
           [AtDone(@, "o_done") EXCEPT !.r = PAM_SESSION_ERR,
                                       !.ev = @ \cup {"putfail"}]]
    /\ UNCHANGED <<fs, flock, handle, cred, net>>

\* lines 685-708: pam_putenv, chown, chmod, and the success path to done
OpenEnv(p) ==
    /\ frame[p].pc = "o_env"
    /\ \E putok \in BOOLEAN :
          LET fr == frame[p]
              pw == pw_of(p)
              l   == intlen(pw.uid)
              file == print_filename(Buffer(FileBufLen), pw.uid, l)
              runtime_dir == CStr(runtime_dir_name(file, l))
              c  == sys_chown(fs, runtime_dir, pw.uid, pw.gid, cred[p].euid)
              h  == sys_chmod(c.fs, runtime_dir, <<7, 0, 0>>, cred[p].euid)
          IN  IF ~putok
              THEN /\ frame' = [frame EXCEPT ![p] =
                          [fr EXCEPT !.r = PAM_SESSION_ERR, !.pc = "o_restore",
                                     !.ev = @ \cup {"putfail"}]]
                   /\ UNCHANGED <<fs, handle>>
              ELSE /\ frame' = [frame EXCEPT ![p] =
                          [AtDone(fr, "o_done") EXCEPT !.r = PAM_SUCCESS,
                                                       !.ev = @ \cup {"putenv"}]]
                   /\ handle' = [handle EXCEPT ![p].env = runtime_dir]
                   /\ fs' = h.fs
    /\ UNCHANGED <<flock, cred, net>>

\* lines 710-715: seteuid (0), setegid (0); the process's real and saved
\* ids are root's, so neither call fails
OpenRestore(p) ==
    /\ frame[p].pc = "o_restore"
    /\ cred' = [cred EXCEPT ![p] = [euid |-> 0, egid |-> 0]]
    /\ frame' = [frame EXCEPT ![p].pc = "o_revert"]
    /\ UNCHANGED <<fs, flock, handle, net>>

\* a revert_counter label that leaves the incremented count in the file
OpenRevert_nowrite(p) ==
    /\ frame[p].pc = "o_revert"
    /\ frame' = [frame EXCEPT ![p] =
           [AtDone(@, "o_done") EXCEPT !.r = PAM_SESSION_ERR,
                                       !.count = frame[p].count,
                                       !.ev = @ \cup {"revert"}]]
    /\ handle' = [handle EXCEPT ![p].token = FALSE]
    /\ UNCHANGED <<fs, flock, cred, net>>

\* a revert_counter label that leaves the module data on the handle
OpenRevert_keepflag(p) ==
    /\ frame[p].pc = "o_revert"
    /\ \E io \in IoChoices :
          LET fr == frame[p]
              w  == write_counter(Data(fs, fr.fd), fr.count, io)
          IN  /\ CounterUpdate(p, w)
              /\ frame' = [frame EXCEPT ![p] =
                     [AtDone(fr, "o_done") EXCEPT
                          !.r = PAM_SESSION_ERR,
                          !.count = fr.count,
                          !.ev = @ \cup {"revert"}
                                   \cup (IF w.r < 0 THEN {"wfail"} ELSE {})]]
    /\ UNCHANGED <<flock, handle, cred>>

\* lines 717-730: write the old count back, r = PAM_SESSION_ERR, clear the flag
OpenRevert(p) ==
    /\ frame[p].pc = "o_revert"
    /\ \E io \in IoChoices :
          LET fr == frame[p]
              w  == write_counter(Data(fs, fr.fd), fr.count, io)
          IN  /\ IF fr.count >= 0
                 THEN CounterUpdate(p, w)
                 ELSE UNCHANGED <<fs, net>>
              /\ frame' = [frame EXCEPT ![p] =
                     [AtDone(fr, "o_done") EXCEPT
                          !.r = PAM_SESSION_ERR,
                          !.count = fr.count,
                          !.ev = @ \cup {"revert"}
                                   \cup (IF fr.count >= 0 /\ w.r < 0
                                         THEN {"wfail"} ELSE {})]]
    /\ handle' = [handle EXCEPT ![p].token = FALSE]
    /\ UNCHANGED <<flock, cred>>

\* a done label that returns without close (fd)
OpenDone_noclose(p) ==
    /\ frame[p].pc = "o_done"
    /\ frame' = [frame EXCEPT ![p] = IdleFrame]
    /\ UNCHANGED <<fs, flock, handle, cred, net>>

\* lines 732-738: close (fd) releases the lock; return r
OpenDone(p) ==
    /\ frame[p].pc = "o_done"
    /\ flock' = [flock EXCEPT ![p] = NoFd]
    /\ frame' = [frame EXCEPT ![p] = IdleFrame]
    /\ UNCHANGED <<fs, handle, cred, net>>

\* a return statement before the done label is executed
OpenReturn(p) ==
    /\ frame[p].pc = "o_return"
    /\ frame' = [frame EXCEPT ![p] = IdleFrame]
    /\ UNCHANGED <<fs, flock, handle, cred, net>>

\* ----------------------------------------------------- pam_sm_close_session
\* a session-end that does not look for the module data before it starts
CloseBegin_nodata(p) ==
    /\ Idle(p)
    /\ \E openok \in BOOLEAN : \E pro \in {hook_prologue(p, openok)} :
          LET fr == Entry(p, "close")
          IN  /\ fs' = pro.fs
              /\ IF pro.fd = NoFd
                 THEN Return(p, fr, pro.code)
                 ELSE frame' = [frame EXCEPT ![p] =
                                   [fr EXCEPT !.pc = "c_lock", !.fd = pro.fd]]
    /\ UNCHANGED <<flock, handle, cred, net>>

\* lines 456-513
CloseBegin(p) ==
    /\ Idle(p)
    /\ LET fr == Entry(p, "close")
       IN  IF ~handle[p].token
           THEN /\ Return(p, [fr EXCEPT !.ev = {"notoken"}], PAM_SUCCESS)
                /\ UNCHANGED fs
           ELSE \E openok \in BOOLEAN : \E pro \in {hook_prologue(p, openok)} :
                   /\ fs' = pro.fs
                   /\ IF pro.fd = NoFd
                      THEN Return(p, fr, pro.code)
                      ELSE frame' = [frame EXCEPT ![p] =
                                        [fr EXCEPT !.pc = "c_lock", !.fd = pro.fd]]
    /\ UNCHANGED <<flock, handle, cred, net>>

CloseLock(p) ==
    /\ frame[p].pc = "c_lock"
    /\ \E hard \in BOOLEAN : open_and_lock_flock(p, "c_read", hard)
    /\ UNCHANGED <<fs, handle, cred, net>>

\* lines 515-529: read the counter and decrement it, not below zero
CloseRead(p) ==
    /\ frame[p].pc = "c_read"
    /\ \E ioerr \in BOOLEAN :
          LET fr == frame[p]
              c  == read_counter(Data(fs, fr.fd), ioerr)
          IN  frame' = [frame EXCEPT ![p] =
                  IF c < 0
                  THEN [AtDone(fr, "c_done") EXCEPT
                            !.r = IF c = -2 THEN PAM_SUCCESS ELSE RAW_MINUS_ONE,
                            !.ev = IF c = -2 THEN @ \cup {"sentinel"} ELSE @]
                  ELSE [fr EXCEPT !.base = Val(c),
                                  !.count = IF c > 0 THEN c - 1 ELSE c,
                                  !.pc = "c_update"]]
    /\ UNCHANGED <<fs, flock, handle, cred, net>>

\* lines 531-552 as a function of the file system, the counter bytes and the
\* decremented count: rmrf if the count is 0, then write_counter
close_update(f, data, count, uid, euid, egid, io) ==
    LET l    == intlen(uid)
        file == CStr(runtime_dir_name(print_filename(Buffer(FileBufLen), uid, l), l))
        \* if (write_counter (fd, count) < 0) r = -1
        written(rm, cnt, w) ==
            [fs |-> rm.fs, data |-> w.data, count |-> cnt, removed |-> count = 0,
             r |-> IF w.r < 0 THEN -1 ELSE IF cnt = -1 THEN -1 ELSE 0,
             ev |-> (IF count = 0 THEN {"rmrf"} ELSE {})
                    \cup (IF count = 0 /\ rm.r < 0 THEN {"rmfail"} ELSE {})
                    \cup (IF count = 0 /\ ~Exists(f, file) THEN {"absent"} ELSE {})
                    \cup (IF w.r < 0 THEN {"wfail"} ELSE {})]
        \* if (rmrf (file) < 0) { count = -1; r = -1; }
        removed(rm, cnt) == written(rm, cnt, write_counter(data, cnt, io))
        tried(rm) == removed(rm, IF count = 0 /\ rm.r < 0 THEN -1 ELSE count)
    IN  tried(IF count = 0 THEN rmrf(f, file, euid, egid) ELSE [fs |-> f, r |-> 0])

CloseUpdate(p) ==
    /\ frame[p].pc = "c_update"
    /\ \E io \in IoChoices :
       \E u \in {close_update(fs, Data(fs, frame[p].fd), frame[p].count,
                              pw_of(p).uid, cred[p].euid, cred[p].egid, io)} :
          LET fr == frame[p]
          IN  /\ fs' = SetData(u.fs, fr.fd, u.data)
              /\ net' = [net EXCEPT ![pw_of(p).uid] =
                            @ + Val(read_counter(u.data, FALSE)) - fr.base]
              /\ frame' = [frame EXCEPT ![p] =
                     [AtDone(fr, "c_done") EXCEPT
                          !.r = IF u.r = 0 THEN PAM_SUCCESS ELSE RAW_MINUS_ONE,
                          !.ev = @ \cup u.ev]]
    /\ UNCHANGED <<flock, handle, cred>>

\* lines 554-561: close (fd), clear the module data, map r to a PAM code
CloseDone(p) ==
    /\ frame[p].pc = "c_done"
    /\ flock' = [flock EXCEPT ![p] = NoFd]
    /\ handle' = [handle EXCEPT ![p].token = FALSE]
    /\ frame' = [frame EXCEPT ![p] = IdleFrame]
    /\ UNCHANGED <<fs, cred, net>>

\* a return statement before the done label is executed
CloseReturn(p) ==
    /\ frame[p].pc = "c_return"
    /\ frame' = [frame EXCEPT ![p] = IdleFrame]
    /\ UNCHANGED <<fs, flock, handle, cred, net>>

Next ==
    \E p \in Procs :
        \/ OpenBegin(p)
        \/ OpenLock(p)
        \/ OpenRead(p)
        \/ OpenWrite(p)
        \/ OpenFlag(p)
        \/ OpenDrop(p)
        \/ OpenMkdir(p)
        \/ OpenEnv(p)
        \/ OpenRestore(p)
        \/ OpenRevert(p)
        \/ OpenDone(p)
        \/ OpenReturn(p)
        \/ CloseBegin(p)
        \/ CloseLock(p)
        \/ CloseRead(p)
        \/ CloseUpdate(p)
        \/ CloseDone(p)
        \/ CloseReturn(p)

Spec == Init /\ [][Next]_vars

\* ------------------------------------------- rmrf, one system call at a time
\* The removal of session-end again, every system call of rmrf a step of its
\* own, next to the processes of the user who owns the runtime directory.

\* a directory and a file of root's that lie outside every runtime directory
Etc == <<"/", "e", "t", "c">>
EtcFile == Etc \o <<"/", "p">>
\* the names of the entries the user keeps in the runtime directory
EntryNames == {<<"d">>, <<"e">>}
\* the user whose session ends
Owner == CHOOSE pw \in Passwd : pw.uid # 0
\* the process that runs the hook (as root); the others are the user's
Hook == 1
UserPaths == {RuntimeDir(Owner.uid) \o <<"/">> \o n : n \in EntryNames}

\* symlink (target, path)
sys_symlink(f, target, path, euid, egid) ==
    LET at(q, d) ==
            IF q \in DOMAIN f THEN [fs |-> f, errno |-> "EEXIST"]
            ELSE IF d \notin DOMAIN f THEN [fs |-> f, errno |-> "ENOENT"]
            ELSE IF f[d].kind # "dir" THEN [fs |-> f, errno |-> "ENOTDIR"]
            ELSE IF ~MayWrite(f[d], euid, egid) THEN [fs |-> f, errno |-> "EACCES"]
            ELSE [fs |-> (q :> LinkNode(euid, egid, target)) @@ f, errno |-> "OK"]
        in(q) == at(q, Dirname(q))
    IN  in(RealPath(f, path, FALSE))

\* the locals of one call of rmrf: dir is the directory the stream of
\* opendir () reads, seen the names readdir () has returned so far
rmrf_call(path) ==
    [path |-> path, pc |-> "unlink", dir |-> <<>>, seen |-> {}, name |-> <<>>,
     r |-> 0]

Top(fr) == fr.rm[Len(fr.rm)]
SetTop(fr, t) == [fr EXCEPT !.rm[Len(fr.rm)] = t]

\* the innermost call of rmrf returns v: to the loop of its caller (line 415),
\* or to the hook (lines 535-539)
rmrf_return(fr, v) ==
    LET rest == SubSeq(fr.rm, 1, Len(fr.rm) - 1)
        n    == Len(rest)
    IN  IF n = 0
        THEN [fr EXCEPT !.rm = <<>>, !.pc = "c_write",
                        !.count = IF v < 0 THEN -1 ELSE @,
                        !.r = IF v < 0 THEN RAW_MINUS_ONE ELSE @,
                        !.ev = IF v < 0 THEN @ \cup {"rmfail"} ELSE @]
        ELSE [fr EXCEPT !.rm = [rest EXCEPT ![n].pc = "readdir",
                                            ![n].r = IF v # 0 THEN -1 ELSE @]]

\* lines 531-534: if (count == 0) rmrf (file)
RmBegin(p) ==
    /\ frame[p].pc = "c_update"
    /\ frame' = [frame EXCEPT ![p] =
                    IF @.count = 0
                    THEN [@ EXCEPT !.pc = "c_rmrf",
                                   !.rm = <<rmrf_call(RuntimeDir(pw_of(p).uid))>>,
                                   !.ev = @ \cup {"rmrf"}
                                            \cup (IF Exists(fs, RuntimeDir(pw_of(p).uid))
                                                  THEN {} ELSE {"absent"})]
                    ELSE [@ EXCEPT !.pc = "c_write"]]
    /\ UNCHANGED <<fs, flock, handle, cred, net>>

\* lines 370-376: unlink (path)
RmUnlink(p) ==
    /\ frame[p].pc = "c_rmrf"
    /\ Top(frame[p]).pc = "unlink"
    /\ \E u \in {sys_unlink(fs, Top(frame[p]).path, cred[p].euid, cred[p].egid)} :
          /\ fs' = u.fs
          /\ frame' = [frame EXCEPT ![p] =
                IF u.errno = "OK" THEN rmrf_return(@, 0)
                ELSE IF u.errno # "EISDIR" THEN rmrf_return(@, -1)
                ELSE SetTop(@, [Top(@) EXCEPT !.pc = "opendir"])]
    /\ UNCHANGED <<flock, handle, cred, net>>

\* lines 378-390: opendir (path), which follows a symbolic link
RmOpendir(p) ==
    /\ frame[p].pc = "c_rmrf"
    /\ Top(frame[p]).pc = "opendir"
    /\ \E dir \in {RealPath(fs, Top(frame[p]).path, TRUE)} :
          frame' = [frame EXCEPT ![p] =
                IF ~(dir \in DOMAIN fs /\ fs[dir].kind = "dir") THEN rmrf_return(@, -1)
                ELSE IF Len(Top(@).path) >= MAX_PATH_LEN - 1 THEN rmrf_return(@, -1)
                ELSE SetTop(@, [Top(@) EXCEPT !.pc = "readdir", !.dir = dir])]
    /\ UNCHANGED <<fs, flock, handle, cred, net>>

\* a loop over the entries that takes every entry for a file to unlink
RmEntry_flat(p) ==
    /\ frame[p].pc = "c_rmrf"
    /\ Top(frame[p]).pc = "readdir"
    /\ LET top   == Top(frame[p])
           names == {Basename(c) : c \in Children(fs, top.dir)} \ top.seen
       IN  IF names = {}
           THEN frame' = [frame EXCEPT ![p] = SetTop(@, [top EXCEPT !.pc = "rmdir"])]
           ELSE \E name \in names :
                   frame' = [frame EXCEPT ![p] =
                       SetTop(@, [top EXCEPT !.seen = @ \cup {name},
                                             !.pc = "unlink_entry", !.name = name])]
    /\ UNCHANGED <<fs, flock, handle, cred, net>>

\* a loop over the entries that gives up at the first entry it cannot stat
RmEntry_abort(p) ==
    /\ frame[p].pc = "c_rmrf"
    /\ Top(frame[p]).pc = "readdir"
    /\ LET top   == Top(frame[p])
           names == {Basename(c) : c \in Children(fs, top.dir)} \ top.seen
       IN  IF names = {}
           THEN frame' = [frame EXCEPT ![p] = SetTop(@, [top EXCEPT !.pc = "rmdir"])]
           ELSE \E name \in names :
                \E st \in {RealPath(fs, top.path \o <<"/">> \o name, TRUE)} :
                   LET at == [top EXCEPT !.seen = @ \cup {name}]
                   IN  frame' = [frame EXCEPT ![p] =
                         IF st \notin DOMAIN fs
                         THEN rmrf_return(@, -1)
                         ELSE IF fs[st].kind = "dir"
                         THEN [@ EXCEPT !.rm =
                                 SubSeq(@, 1, Len(@) - 1)
                                 \o <<[at EXCEPT !.pc = "call"],
                                      rmrf_call(top.path \o <<"/">> \o name)>>]
                         ELSE SetTop(@, [at EXCEPT !.pc = "unlink_entry",
                                                   !.name = name])]
    /\ UNCHANGED <<fs, flock, handle, cred, net>>

\* lines 393-419: readdir () and stat () of the entry; a directory is entered
RmEntry(p) ==
    /\ frame[p].pc = "c_rmrf"
    /\ Top(frame[p]).pc = "readdir"
    /\ LET top   == Top(frame[p])
           names == {Basename(c) : c \in Children(fs, top.dir)} \ top.seen
       IN  IF names = {}
           THEN frame' = [frame EXCEPT ![p] = SetTop(@, [top EXCEPT !.pc = "rmdir"])]
           ELSE \E name \in names :
                \E st \in {RealPath(fs, top.path \o <<"/">> \o name, TRUE)} :
                   LET at == [top EXCEPT !.seen = @ \cup {name}]
                   IN  frame' = [frame EXCEPT ![p] =
                         IF Len(top.path) + 1 + Len(name) >= MAX_PATH_LEN
                         THEN SetTop(@, [at EXCEPT !.r = -1])
                         ELSE IF st \notin DOMAIN fs
                         THEN SetTop(@, [at EXCEPT !.r = -1])
                         ELSE IF fs[st].kind = "dir"
                         THEN [@ EXCEPT !.rm =
                                 SubSeq(@, 1, Len(@) - 1)
                                 \o <<[at EXCEPT !.pc = "call"],
                                      rmrf_call(top.path \o <<"/">> \o name)>>]
                         ELSE SetTop(@, [at EXCEPT !.pc = "unlink_entry",
                                                   !.name = name])]
    /\ UNCHANGED <<fs, flock, handle, cred, net>>

\* lines 420-425: unlink (full_path)
RmUnlinkEntry(p) ==
    /\ frame[p].pc = "c_rmrf"
    /\ Top(frame[p]).pc = "unlink_entry"
    /\ LET top == Top(frame[p])
       IN  \E u \in {sys_unlink(fs, top.path \o <<"/">> \o top.name,
                                cred[p].euid, cred[p].egid)} :
              /\ fs' = u.fs
              /\ frame' = [frame EXCEPT ![p] =
                    SetTop(@, [top EXCEPT !.pc = "readdir", !.name = <<>>,
                                          !.r = IF u.errno # "OK" THEN -1 ELSE @])]
    /\ UNCHANGED <<flock, handle, cred, net>>

\* lines 428-439: closedir (dir), rmdir (path), return r
RmRmdir(p) ==
    /\ frame[p].pc = "c_rmrf"
    /\ Top(frame[p]).pc = "rmdir"
    /\ LET top == Top(frame[p])
       IN  \E d \in {sys_rmdir(fs, top.path, cred[p].euid, cred[p].egid)} :
              /\ fs' = d.fs
              /\ frame' = [frame EXCEPT ![p] =
                    rmrf_return(@, IF d.errno # "OK" THEN -1 ELSE top.r)]
    /\ UNCHANGED <<flock, handle, cred, net>>

\* lines 542-552: write_counter (fd, count)
RmFinish(p) ==
    /\ frame[p].pc = "c_write"
    /\ \E io \in IoChoices :
       \E w \in {write_counter(Data(fs, frame[p].fd), frame[p].count, io)} :
          LET fr == frame[p]
          IN  /\ fs' = SetData(fs, fr.fd, w.data)
              /\ net' = [net EXCEPT ![pw_of(p).uid] =
                            @ + Val(read_counter(w.data, FALSE)) - fr.base]
              /\ frame' = [frame EXCEPT ![p] =
                     [AtDone(fr, "c_done") EXCEPT
                          !.r = IF w.r < 0 THEN RAW_MINUS_ONE ELSE @,
                          !.ev = IF w.r < 0 THEN @ \cup {"wfail"} ELSE @]]
    /\ UNCHANGED <<flock, handle, cred>>

\* what a process of the user may do to its own entries at any moment
UserMkdir(q) ==
    /\ \E path \in UserPaths :
       \E m \in {sys_mkdir(fs, path, <<7, 0, 0>>, cred[q].euid, cred[q].egid)} :
          m.errno = "OK" /\ fs' = m.fs
    /\ UNCHANGED <<flock, handle, cred, frame, net>>

UserRmdir(q) ==
    /\ \E path \in UserPaths :
       \E d \in {sys_rmdir(fs, path, cred[q].euid, cred[q].egid)} :
          d.errno = "OK" /\ fs' = d.fs
    /\ UNCHANGED <<flock, handle, cred, frame, net>>

UserSymlink(q) ==
    /\ \E path \in UserPaths :
       \E l \in {sys_symlink(fs, Etc, path, cred[q].euid, cred[q].egid)} :
          l.errno = "OK" /\ fs' = l.fs
    /\ UNCHANGED <<flock, handle, cred, frame, net>>

UserUnlink(q) ==
    /\ \E path \in UserPaths \cup {EtcFile} :
       \E u \in {sys_unlink(fs, path, cred[q].euid, cred[q].egid)} :
          u.errno = "OK" /\ fs' = u.fs
    /\ UNCHANGED <<flock, handle, cred, frame, net>>

\* A live session of the user: the counter reads 1 or 2, the runtime
\* directory is the user's and holds a directory and a file of the user's, or
\* only one of them, or nothing; or the directory has been removed from
\* outside since the session started.
InitRm ==
    /\ \E count \in {<<"1">>, <<"2">>}, names \in SUBSET EntryNames,
          there \in BOOLEAN :
          LET R == RuntimeDir(Owner.uid)
              own(n) == IF n = <<"d">> THEN DirNode(Owner.uid, Owner.gid, <<7, 0, 0>>)
                        ELSE FileNode(Owner.uid, Owner.gid, <<6, 0, 0>>, <<>>)
              tree == [q \in {R \o <<"/">> \o n : n \in names} |->
                          own(Basename(q))]
          IN  /\ ~there => names = {}
              /\ \E rest \in {(CounterFile(Owner.uid) :> FileNode(0, 0, <<6, 4, 4>>, count))
                              @@ (Etc :> DirNode(0, 0, <<7, 5, 5>>))
                              @@ (EtcFile :> FileNode(0, 0, <<6, 4, 4>>, <<>>))
                              @@ WithParent(BootFs, "dir")} :
                    fs = IF there
                         THEN tree @@ (R :> DirNode(Owner.uid, Owner.gid, <<7, 0, 0>>))
                                   @@ rest
                         ELSE rest
    /\ flock = [p \in Procs |-> NoFd]
    /\ handle = [p \in Procs |->
                    [user |-> Owner.name, token |-> p = Hook, env |-> <<>>]]
    /\ cred = [p \in Procs |->
                  IF p = Hook THEN [euid |-> 0, egid |-> 0]
                  ELSE [euid |-> Owner.uid, egid |-> Owner.gid]]
    /\ frame = [p \in Procs |-> IdleFrame]
    /\ net = [u \in Uids |-> 0]

NextRm ==
    \/ CloseBegin(Hook)
    \/ CloseLock(Hook)
    \/ CloseRead(Hook)
    \/ RmBegin(Hook)
    \/ RmUnlink(Hook)
    \/ RmOpendir(Hook)
    \/ RmEntry(Hook)
    \/ RmUnlinkEntry(Hook)
    \/ RmRmdir(Hook)
    \/ RmFinish(Hook)
    \/ CloseDone(Hook)
    \/ CloseReturn(Hook)
    \/ \E q \in Procs \ {Hook} :
          \/ UserMkdir(q)
          \/ UserRmdir(q)
          \/ UserSymlink(q)
          \/ UserUnlink(q)

SpecRm == InitRm /\ [][NextRm]_vars

\* --------------------------------------------- write_counter on its own
\* One call of write_counter on a counter file, for counts of one to three
\* digits and for every answer the write () and ftruncate () calls can give,
\* followed by the read_counter of a later hook.

\* the counts write_counter is called with (-1 asks for the sentinel)
WriteCounts == {-1, 0, 9, 10, 12, 100}
\* what the file holds before the call
OldContents == {<<>>, <<"9">>, <<"1", "0">>, <<"9", "9">>, <<"1", "2", "3">>, <<"-">>}
\* the results of the successive write () calls: a byte count or -1
WriteResults == {<<>>, <<-1>>, <<1>>, <<2>>, <<1, -1>>, <<1, 1>>, <<2, -1>>}
\* lseek and ftruncate succeed or fail; the calls of
\* emergency_invalidate_counter succeed
WriteScripts ==
    {IoScript(lseek, writes, trunc, TRUE, TRUE, TRUE) :
        lseek \in BOOLEAN, writes \in WriteResults, trunc \in BOOLEAN}

\* the minimal decimal representation write_counter aims at
Decimal(count) ==
    IF count >= 0 THEN print_int(Buffer(intlen(count)), count, intlen(count))
    ELSE <<"-">>

InitWrite ==
    /\ \E old \in OldContents :
          fs = (CounterFile(Owner.uid) :> FileNode(0, 0, <<6, 4, 4>>, old))
               @@ WithParent(BootFs, "dir")
    /\ flock = [p \in Procs |-> IF p = Hook THEN CounterFile(Owner.uid) ELSE NoFd]
    /\ handle = [p \in Procs |->
                    [user |-> Owner.name, token |-> FALSE, env |-> <<>>]]
    /\ cred = [p \in Procs |-> [euid |-> 0, egid |-> 0]]
    /\ \E count \in WriteCounts, io \in WriteScripts :
          frame = [p \in Procs |->
                      [pc |-> IF p = Hook THEN "w_call" ELSE "idle",
                       fd |-> IF p = Hook THEN CounterFile(Owner.uid) ELSE NoFd,
                       count |-> count, io |-> io,
                       old |-> Data(fs, CounterFile(Owner.uid)), r |-> 0]]
    /\ net = [u \in Uids |-> 0]

\* lines 313-357: r = write_counter (fd, count)
WriteCounter(p) ==
    /\ frame[p].pc = "w_call"
    /\ \E w \in {write_counter(Data(fs, frame[p].fd), frame[p].count, frame[p].io)} :
          /\ fs' = SetData(fs, frame[p].fd, w.data)
          /\ frame' = [frame EXCEPT ![p].pc = "w_done", ![p].r = w.r]
    /\ UNCHANGED <<flock, handle, cred, net>>

\* the holder closes the file; the next hook to lock it calls read_counter
WriteRead(p) ==
    /\ frame[p].pc = "w_done"
    /\ flock' = [flock EXCEPT ![p] = NoFd]
    /\ frame' = [frame EXCEPT ![p].pc = "w_read",
                              ![p].r = read_counter(Data(fs, frame[p].fd), FALSE)]
    /\ UNCHANGED <<fs, handle, cred, net>>

NextWrite ==
    \E p \in Procs :
        \/ WriteCounter(p)
        \/ WriteRead(p)

SpecWrite == InitWrite /\ [][NextWrite]_vars

\* ------------------------------------------------------- rmrf on its own
\* The rmrf of a session-end that has decremented the count to 0, one system
\* call at a time and with nothing else running, on a path that holds a tree
\* of directories and regular files of the user, or a single regular file.

\* the path rmrf is called with
TreeRoot == RuntimeDir(Owner.uid)
\* the paths below it an entry may be at, three levels deep
TreePaths ==
    {TreeRoot \o <<"/", "a">>, TreeRoot \o <<"/", "b">>,
     TreeRoot \o <<"/", "a", "/", "c">>, TreeRoot \o <<"/", "a", "/", "d">>,
     TreeRoot \o <<"/", "b", "/", "f">>,
     TreeRoot \o <<"/", "a", "/", "c", "/", "e">>}
\* the trees: every entry lies in a directory of the tree
TreeShapes ==
    {t \in [TreePaths -> {"none", "dir", "file"}] :
        \A q \in TreePaths :
            (t[q] # "none" /\ Dirname(q) # TreeRoot) => t[Dirname(q)] = "dir"}
\* a path at which there is nothing: a symbolic link to it dangles, and the
\* stat () of rmrf fails on the entry
Gone == <<"/", "g", "o", "n", "e">>
\* the trees that hold at least one dangling symbolic link
BrokenShapes ==
    {t \in [TreePaths -> {"none", "dir", "file", "link"}] :
        /\ \A q \in TreePaths :
              (t[q] # "none" /\ Dirname(q) # TreeRoot) => t[Dirname(q)] = "dir"
        /\ \E q \in TreePaths : t[q] = "link"}
TreeFs(t, rootkind) ==
    LET node(k) == IF k = "dir" THEN DirNode(Owner.uid, Owner.gid, <<7, 0, 0>>)
                   ELSE IF k = "file"
                   THEN FileNode(Owner.uid, Owner.gid, <<6, 0, 0>>, <<>>)
                   ELSE LinkNode(Owner.uid, Owner.gid, Gone)
    IN  [q \in {q \in TreePaths : t[q] # "none"} |-> node(t[q])]
        @@ (TreeRoot :> node(rootkind))
        @@ (CounterFile(Owner.uid) :> FileNode(0, 0, <<6, 4, 4>>, <<"1">>))
        @@ WithParent(BootFs, "dir")

InitTree ==
    /\ \E t \in TreeShapes, rootkind \in {"dir", "file"} :
          /\ rootkind = "file" => \A q \in TreePaths : t[q] = "none"
          /\ fs = TreeFs(t, rootkind)
          /\ frame = [p \in Procs |->
                IF p = Hook
                THEN [IdleFrame EXCEPT !.pc = "c_update", !.hook = "close",
                                       !.fd = CounterFile(Owner.uid), !.base = 1,
                                       !.ev = {"token"}]
                     @@ [old |-> fs]
                ELSE IdleFrame]
    /\ flock = [p \in Procs |-> IF p = Hook THEN CounterFile(Owner.uid) ELSE NoFd]
    /\ handle = [p \in Procs |->
                    [user |-> Owner.name, token |-> p = Hook, env |-> <<>>]]
    /\ cred = [p \in Procs |-> [euid |-> 0, egid |-> 0]]
    /\ net = [u \in Uids |-> 0]

NextTree ==
    \/ RmBegin(Hook)
    \/ RmUnlink(Hook)
    \/ RmOpendir(Hook)
    \/ RmEntry(Hook)
    \/ RmUnlinkEntry(Hook)
    \/ RmRmdir(Hook)

SpecTree == InitTree /\ [][NextTree]_vars

\* the same call on a tree in which the removal of some entry fails
InitBroken ==
    /\ \E t \in BrokenShapes :
          /\ fs = TreeFs(t, "dir")
          /\ frame = [p \in Procs |->
                IF p = Hook
                THEN [IdleFrame EXCEPT !.pc = "c_update", !.hook = "close",
                                       !.fd = CounterFile(Owner.uid), !.base = 1,
                                       !.ev = {"token"}]
                     @@ [old |-> fs]
                ELSE IdleFrame]
    /\ flock = [p \in Procs |-> IF p = Hook THEN CounterFile(Owner.uid) ELSE NoFd]
    /\ handle = [p \in Procs |->
                    [user |-> Owner.name, token |-> p = Hook, env |-> <<>>]]
    /\ cred = [p \in Procs |-> [euid |-> 0, egid |-> 0]]
    /\ net = [u \in Uids |-> 0]

SpecBroken == InitBroken /\ [][NextTree]_vars

\* ---------------------------------------------- read_counter on its own
\* One call of read_counter on a fresh descriptor of a counter file, for
\* every content of up to MaxFileLen bytes over ReadBytes.

\* a file one byte longer than the buffer of read_counter
MaxFileLen == 5
\* the bytes of a file: digits, the sentinel byte, a byte that is neither
ReadBytes == {"0", "7", "-", "a"}
FileContents == UNION {[1..n -> ReadBytes] : n \in 0..MaxFileLen}

\* the number a string of decimal digits denotes
RECURSIVE DecimalValue(_)
DecimalValue(data) ==
    IF data = <<>> THEN 0
    ELSE 10 * DecimalValue(SubSeq(data, 1, Len(data) - 1))
         + DigitValue(data[Len(data)])

InitRead ==
    /\ \E data \in FileContents :
          fs = (CounterFile(Owner.uid) :> FileNode(0, 0, <<6, 4, 4>>, data))
               @@ WithParent(BootFs, "dir")
    /\ flock = [p \in Procs |-> IF p = Hook THEN CounterFile(Owner.uid) ELSE NoFd]
    /\ handle = [p \in Procs |->
                    [user |-> Owner.name, token |-> FALSE, env |-> <<>>]]
    /\ cred = [p \in Procs |-> [euid |-> 0, egid |-> 0]]
    /\ frame = [p \in Procs |->
                    [pc |-> IF p = Hook THEN "r_call" ELSE "idle",
                     fd |-> IF p = Hook THEN CounterFile(Owner.uid) ELSE NoFd,
                     count |-> 0]]
    /\ net = [u \in Uids |-> 0]

\* lines 252-287: count = read_counter (fd), no read () failing
ReadCounter(p) ==
    /\ frame[p].pc = "r_call"
    /\ frame' = [frame EXCEPT ![p].pc = "r_done",
                              ![p].count = read_counter(Data(fs, frame[p].fd), FALSE)]
    /\ UNCHANGED <<fs, flock, handle, cred, net>>

NextRead == \E p \in Procs : ReadCounter(p)

SpecRead == InitRead /\ [][NextRead]_vars

\* ------------------------------------------- hooks on a corrupt counter
\* The hooks of two handles of one user whose counter file holds bytes that
\* read_counter cannot parse, with or without the runtime directory and with
\* or without a session on each handle.

CorruptContents == {<<"a">>, <<"1", "-">>, <<"-", "1">>, <<"1", "a">>}

InitCorrupt ==
    /\ \E data \in CorruptContents, there \in BOOLEAN :
       \E rest \in {(CounterFile(Owner.uid) :> FileNode(0, 0, <<6, 4, 4>>, data))
                     @@ WithParent(BootFs, "dir")} :
          fs = IF there
               THEN (RuntimeDir(Owner.uid) :> DirNode(Owner.uid, Owner.gid, <<7, 0, 0>>))
                    @@ rest
               ELSE rest
    /\ flock = [p \in Procs |-> NoFd]
    /\ handle \in [Procs -> {[user |-> Owner.name, token |-> t, env |-> <<>>] :
                                t \in BOOLEAN}]
    /\ cred = [p \in Procs |-> [euid |-> 0, egid |-> 0]]
    /\ frame = [p \in Procs |-> IdleFrame]
    /\ net = [u \in Uids |-> 0]

\* the steps of the hooks up to the read of the counter, and their returns
NextCorrupt ==
    \E p \in Procs :
        \/ OpenBegin(p)
        \/ OpenLock(p)
        \/ OpenRead(p)
        \/ OpenDone(p)
        \/ OpenReturn(p)
        \/ CloseBegin(p)
        \/ CloseLock(p)
        \/ CloseRead(p)
        \/ CloseDone(p)
        \/ CloseReturn(p)

SpecCorrupt == InitCorrupt /\ [][NextCorrupt]_vars

\* ------------------------------------------------------------- properties
\* the processes whose handle names a user of the passwd database
Known == {p \in Procs : getpwnam(handle[p].user) # {}}
\* p holds the lock of its counter file and works on the counter
InCritical(p) ==
    frame[p].pc \in {"o_read", "o_write", "o_flag", "o_drop", "o_mkdir", "o_env",
                     "o_restore", "o_revert", "o_done",
                     "c_read", "c_update", "c_done"}
\* no other handle of p's user carries a session or runs a hook
Alone(p) ==
    \A q \in Procs \ {p} :
        handle[q].user = handle[p].user => ~handle[q].token /\ Idle(q)

\* C1: one session-start followed by one session-end on the same handle, with
\* no other session of the identity: after the successful start the directory
\* {parent}/{id} exists; the end returns Success, and at its return the
\* directory is gone and the counter file reads 0.
C1_StartThenEnd ==
    \A p \in Known :
        LET uid == pw_of(p).uid
        IN  /\ (frame[p].pc = "o_done" /\ frame[p].r = PAM_SUCCESS)
                  => IsDir(fs, DocumentedDir(uid))
            /\ (frame[p].pc \in {"c_done", "c_return"} /\ handle[p].token /\ Alone(p))
                  => /\ ReturnCode(frame[p]) = PAM_SUCCESS
                     /\ ~Exists(fs, DocumentedDir(uid))
                     /\ CounterValue(fs, uid) = 0

\* C2: while a session that was started successfully has not ended, the
\* runtime directory {parent}/{id} of its identity exists, and a session-end
\* removes it only when it has driven the counter to 0.
C2_DirWhileLive ==
    \A p \in Known :
        LET uid == pw_of(p).uid
        IN  /\ (handle[p].token /\ frame[p].pc \in {"idle", "c_lock", "c_read", "c_return"})
                  => IsDir(fs, DocumentedDir(uid))
            /\ (frame[p].pc = "c_done" /\ "rmrf" \in frame[p].ev /\ frame[p].r = PAM_SUCCESS)
                  => CounterValue(fs, uid) = 0 /\ ~Exists(fs, DocumentedDir(uid))

\* C3: for one identity at most one process at a time is between taking the
\* lock and closing the counter file, and no update of the counter is lost:
\* the counter reads the sum of the changes every hook made to the value it
\* had read (two starts on c leave c + 2, a start and an end leave c).
C3_Serialized ==
    /\ \A p \in Procs : InCritical(p) => flock[p] = frame[p].fd /\ frame[p].fd # NoFd
    /\ \A p \in Procs, q \in Procs :
          p # q /\ flock[p] # NoFd => flock[q] # flock[p]
    /\ \A u \in Uids : CounterValue(fs, u) = net[u]
\* a start has written 2 over the 1 of another session while that session's
\* end is waiting for the lock
C3_Witness ==
    \E p \in Procs, q \in Procs :
        /\ p # q
        /\ frame[p].pc = "o_flag" /\ frame[p].base = 2
        /\ frame[q].pc = "c_lock" /\ frame[q].retries >= 1
        /\ frame[q].fd = frame[p].fd
        /\ CounterValue(fs, pw_of(p).uid) = 2

\* C4: when a hook returns, on every return path, the process holds neither
\* the lock nor an open descriptor of the counter file.
C4_Released ==
    \A p \in Procs :
        frame[p].pc \in {"idle", "o_return", "c_return"}
            => flock[p] = NoFd /\ frame[p].fd = NoFd
\* both hooks of a session have returned, and another process has taken the
\* lock of the same counter file
C4_Witness ==
    \E p \in Procs, q \in Procs :
        /\ p # q /\ handle[p].user = handle[q].user
        /\ Idle(p) /\ handle[p].env # <<>> /\ ~handle[p].token
        /\ InCritical(q)

\* C5: a hook makes at most 5 attempts to lock the counter file; when the
\* fifth finds the lock still held it returns PAM_SESSION_ERR, and it is never
\* in the lock loop with 5 failed attempts behind it.
C5_LockBudget ==
    \A p \in Procs :
        /\ frame[p].retries < 5
        /\ "timeout" \in frame[p].ev
              => /\ frame[p].pc \in {"o_return", "c_return"}
                 /\ frame[p].r = PAM_SESSION_ERR
\* a session-end has given up while the other process still holds the lock
C5_Witness ==
    \E p \in Procs, q \in Procs :
        /\ p # q
        /\ frame[p].pc = "c_return" /\ "timeout" \in frame[p].ev
        /\ flock[q] # NoFd /\ flock[q] = CounterFile(pw_of(p).uid)

\* C6: in session-start the effective uid and gid are again those of the
\* entry of the hook at every step after the mkdir and when the hook returns.
C6_PrivilegesRestored ==
    \A p \in Procs :
        frame[p].pc \in {"o_env", "o_revert", "o_done", "o_return"}
            => cred[p] = [euid |-> frame[p].euid0, egid |-> frame[p].egid0]

\* C7: the mkdir of the runtime directory is only issued with the effective
\* uid and gid of the user; when setegid or seteuid fails no mkdir is issued
\* and the hook returns PAM_SESSION_ERR.
C7_DropBeforeCreate ==
    \A p \in Procs :
        /\ frame[p].pc = "o_mkdir"
              => cred[p] = [euid |-> pw_of(p).uid, egid |-> pw_of(p).gid]
        /\ "dropfail" \in frame[p].ev
              => /\ "mkdir" \notin frame[p].ev
                 /\ frame[p].pc \in {"o_revert", "o_done"}
                 /\ frame[p].pc = "o_done" => frame[p].r = PAM_SESSION_ERR
\* one process has issued the mkdir as alice, another returns from a failed
\* privilege drop
C7_Witness ==
    \E p \in Procs, q \in Procs :
        /\ "mkdir" \in frame[p].ev /\ cred[p] = [euid |-> 1000, egid |-> 1000]
        /\ "dropfail" \in frame[q].ev /\ frame[q].pc = "o_done"

\* C9: session-end on a handle without module data returns PAM_SUCCESS and
\* changes nothing: not a file, not a lock, not the handle.
C9_NoTokenNoOp ==
    [][\A p \in Procs :
          /\ (Idle(p) /\ ~handle[p].token /\ frame'[p].hook = "close")
                => /\ frame'[p].pc = "c_return" /\ frame'[p].r = PAM_SUCCESS
                   /\ UNCHANGED <<fs, flock, handle, cred, net>>
          /\ (frame[p].pc = "c_return" /\ "notoken" \in frame[p].ev
                /\ frame'[p] # frame[p])
                => /\ frame'[p].pc = "idle"
                   /\ UNCHANGED <<fs, flock, handle, cred, net>>]_vars
\* a session-end returns from a handle whose session had already ended
C9_Witness ==
    \E p \in Procs :
        /\ frame[p].pc = "c_return" /\ "notoken" \in frame[p].ev
        /\ frame[p].r = PAM_SUCCESS
        /\ handle[p].env # <<>>

\* C10 (as stated): a session-end that reads the sentinel ends like one that
\* reads 0: the same directory state, counter value and return value.
C10_SentinelAsZero ==
    \A p \in Procs :
        (frame[p].pc = "c_done" /\ "sentinel" \in frame[p].ev)
            => LET z == close_update(fs, <<"0">>, 0, pw_of(p).uid,
                                     cred[p].euid, cred[p].egid, IoAllOk)
               IN  /\ z.fs = fs
                   /\ Val(read_counter(z.data, FALSE))
                          = Val(read_counter(Data(fs, frame[p].fd), FALSE))
                   /\ (z.r = 0) = (frame[p].r = PAM_SUCCESS)

\* C10 (amended): session-start takes the sentinel for a count of 0 and goes
\* on as for 0; session-end on the sentinel returns Success without removing
\* the directory and leaves the sentinel in the file.
C10_Sentinel ==
    \A p \in Procs :
        /\ (frame[p].pc = "o_write" /\ read_counter(Data(fs, frame[p].fd), FALSE) = -2)
              => frame[p].count = 0 /\ frame[p].r = PAM_SUCCESS
        /\ (frame[p].pc = "c_done" /\ "sentinel" \in frame[p].ev)
              => /\ frame[p].r = PAM_SUCCESS
                 /\ "rmrf" \notin frame[p].ev
                 /\ read_counter(Data(fs, frame[p].fd), FALSE) = -2
\* a session-start has read the sentinel, and with the directory in place
C10_Witness ==
    \E p \in Procs :
        /\ frame[p].pc = "o_write"
        /\ read_counter(Data(fs, frame[p].fd), FALSE) = -2
        /\ Exists(fs, RuntimeDir(pw_of(p).uid))

\* C8: while session-end removes the runtime directory as root, nothing the
\* owner of that directory does at the same time makes the hook delete an
\* entry outside the directory's tree: the directory and the file of root's
\* that lie outside it are still there.  (The tree is taken to be the one
\* the hook removes, RuntimeDir; no process of the user may write to Etc.)
C8_NoEscape ==
    /\ Etc \in DOMAIN fs
    /\ EtcFile \in DOMAIN fs

\* the bytes of a counter file spell a negative number: a minus sign and digits
Negative(data) ==
    /\ Len(data) >= 2
    /\ data[1] = "-"
    /\ \A i \in 2..Len(data) : DigitValue(data[i]) >= 0

\* C11: a session-end that holds the token and reads a count of 0 leaves the
\* counter file reading 0 (its write_counter having succeeded), whether the
\* runtime directory is there or not; and no counter file ever holds a
\* negative number.
C11_FloorAtZero ==
    /\ [](\A u \in Uids : ~Negative(Data(fs, CounterFile(u))))
    /\ [][\A p \in Procs :
            (/\ frame[p].pc = "c_update" /\ frame[p].base = 0
             /\ frame'[p].pc = "c_done" /\ "wfail" \notin frame'[p].ev)
                => read_counter(Data(fs', frame[p].fd), FALSE) = 0]_vars

\* C12: when the privilege drop or the mkdir of session-start fails, the hook
\* goes through revert_counter and nowhere else: at its done label r is
\* PAM_SESSION_ERR and, the write of the rollback having succeeded, the counter
\* file reads the count the hook had read before it incremented; once the
\* hook has returned the process holds no lock.
C12_DirFailRollsBack ==
    \A p \in Procs :
        /\ frame[p].ev \cap {"dropfail", "mkfail"} # {}
              => /\ frame[p].pc \in {"o_restore", "o_revert", "o_done"}
                 /\ frame[p].pc = "o_done"
                       => /\ frame[p].r = PAM_SESSION_ERR
                          /\ "revert" \in frame[p].ev
                          /\ flock[p] = frame[p].fd
                          /\ "wfail" \notin frame[p].ev
                                => read_counter(Data(fs, frame[p].fd), FALSE)
                                       = frame[p].count
        /\ Idle(p) => flock[p] = NoFd
\* a start whose privilege drop failed has put the 1 of another session back
C12_Witness ==
    \E p \in Procs :
        /\ frame[p].pc = "o_done" /\ "dropfail" \in frame[p].ev
        /\ "wfail" \notin frame[p].ev
        /\ frame[p].count = 1
        /\ Data(fs, frame[p].fd) = <<"1">>

\* C13: when pam_putenv fails in session-start the hook goes through
\* restore_privs and revert_counter: the directory the mkdir made or found
\* (RuntimeDir) stays in place, and at the done label r is PAM_SESSION_ERR, the
\* handle carries no module data and, the write of the rollback having
\* succeeded, the counter file reads the count read before the increment.
C13_PutenvFailRollsBack ==
    \A p \in Procs :
        "putfail" \in frame[p].ev
            => /\ frame[p].pc \in {"o_restore", "o_revert", "o_done"}
               /\ IsDir(fs, RuntimeDir(pw_of(p).uid))
               /\ frame[p].pc = "o_done"
                     => /\ frame[p].r = PAM_SESSION_ERR
                        /\ "revert" \in frame[p].ev
                        /\ ~handle[p].token
                        /\ "wfail" \notin frame[p].ev
                              => read_counter(Data(fs, frame[p].fd), FALSE)
                                     = frame[p].count
\* pam_putenv has failed in a second session of a user: the counter is back
\* at 1 and the directory of the first session is still there
C13_Witness ==
    \E p \in Procs :
        /\ frame[p].pc = "o_done" /\ "putfail" \in frame[p].ev
        /\ "wfail" \notin frame[p].ev
        /\ Data(fs, frame[p].fd) = <<"1">>
        /\ IsDir(fs, RuntimeDir(pw_of(p).uid))
        /\ \E q \in Procs \ {p} : handle[q].token /\ handle[q].user = handle[p].user

\* C14: when session-end has decremented the count to 0 and the removal of
\* the runtime directory fails, the hook returns an error and still writes
\* the decremented value: the write having succeeded, the counter file reads 0
\* at the done label.  (The directory was there when the removal began.)
C14_RemovalFailureKeepsCount ==
    \A p \in Procs :
        (/\ frame[p].pc = "c_done" /\ "rmfail" \in frame[p].ev
         /\ "absent" \notin frame[p].ev /\ "wfail" \notin frame[p].ev)
            => /\ ReturnCode(frame[p]) # PAM_SUCCESS
               /\ read_counter(Data(fs, frame[p].fd), FALSE) = 0

\* C15: when the runtime directory is already gone as session-end brings the
\* count to 0, the removal counts as done: the write of the counter having
\* succeeded, the hook returns PAM_SUCCESS and the counter file reads 0.
C15_AbsentIsRemoved ==
    \A p \in Procs :
        (frame[p].pc = "c_done" /\ "absent" \in frame[p].ev /\ "wfail" \notin frame[p].ev)
            => /\ ReturnCode(frame[p]) = PAM_SUCCESS
               /\ read_counter(Data(fs, frame[p].fd), FALSE) = 0

\* C16: whatever a hook returns, on every path, is one of PAM_SUCCESS,
\* PAM_USER_UNKNOWN, PAM_SYSTEM_ERR, PAM_SESSION_ERR, PAM_BUF_ERR.
C16_ReturnCodes ==
    \A p \in Procs :
        Returning(p)
            => ReturnCode(frame[p]) \in {PAM_SUCCESS, PAM_USER_UNKNOWN, PAM_SYSTEM_ERR,
                                         PAM_SESSION_ERR, PAM_BUF_ERR}

\* C17: a session-start whose malloc of the session flag failed returns
\* PAM_BUF_ERR, the counter rolled back.
C17_NoMemory ==
    \A p \in Procs :
        (frame[p].pc = "o_done" /\ "nomem" \in frame[p].ev)
            => /\ frame[p].r = PAM_BUF_ERR
               /\ "revert" \in frame[p].ev

\* C18: session-start is at its done label with PAM_SUCCESS only if
\* {parent}/{id} is a directory and that very path is the value published in
\* the handle; a session-start that fails has not called pam_putenv with
\* success.
C18_SuccessMeansPublished ==
    \A p \in Known :
        frame[p].pc = "o_done"
            => IF frame[p].r = PAM_SUCCESS
               THEN /\ IsDir(fs, DocumentedDir(pw_of(p).uid))
                    /\ handle[p].env = DocumentedDir(pw_of(p).uid)
               ELSE "putenv" \notin frame[p].ev

\* C19: whatever the write () and ftruncate () calls of a counter update
\* answer (the repair by emergency_invalidate_counter succeeding), the file
\* afterwards holds the minimal decimal of the count asked for, or the single
\* sentinel byte, or what it held before, nothing of it having been
\* written; the later reader never gets a count from a mix of digits.
C19_AllOrSentinel ==
    \A p \in Procs :
        frame[p].pc \in {"w_done", "w_read"}
            => /\ Data(fs, frame[p].fd)
                      \in {Decimal(frame[p].count), <<"-">>, frame[p].old}
               /\ frame[p].pc = "w_read" /\ frame[p].r >= 0
                      => frame[p].r \in {frame[p].count,
                                         read_counter(frame[p].old, FALSE)}

\* q is d or lies in the tree below d
IsUnder(q, d) ==
    /\ Len(q) >= Len(d)
    /\ SubSeq(q, 1, Len(d)) = d
    /\ Len(q) = Len(d) \/ q[Len(d) + 1] = "/"
\* the file systems f and g agree on d and everything below it
SameTree(f, g, d) ==
    \A q \in DOMAIN f \cup DOMAIN g :
        IsUnder(q, d) => q \in DOMAIN f /\ q \in DOMAIN g /\ f[q] = g[q]

\* C20: hooks of different identities never meet: a step of a hook changes
\* neither the counter file nor the runtime directory of another identity, a
\* lock attempt only fails (and only times out) when a process of the same
\* identity holds the lock, and the file a hook works on is never one that a
\* process of another identity has locked.
C20_NoContention ==
    /\ [](\A p \in Procs, q \in Procs :
            (handle[p].user # handle[q].user /\ flock[p] # NoFd)
                => flock[p] # frame[q].fd)
    /\ [][\A p \in Procs :
            frame'[p] # frame[p]
                => /\ \A u \in Uids \ {pw.uid : pw \in getpwnam(handle[p].user)} :
                         /\ SameTree(fs, fs', CounterFile(u))
                         /\ SameTree(fs, fs', RuntimeDir(u))
                         /\ SameTree(fs, fs', DocumentedDir(u))
                   /\ (\/ frame'[p].retries > frame[p].retries
                       \/ "timeout" \in frame'[p].ev)
                         => \E q \in Procs \ {p} :
                               /\ flock[q] = frame[p].fd
                               /\ handle[q].user = handle[p].user]_vars
\* hooks of two identities are in their critical sections at the same time,
\* each with the lock of its own counter file and with its counter written
C20_Witness ==
    \E p \in Procs, q \in Procs :
        /\ handle[p].user # handle[q].user
        /\ frame[p].pc = "o_flag" /\ frame[q].pc = "o_flag"
        /\ flock[p] = CounterFile(pw_of(p).uid)
        /\ flock[q] = CounterFile(pw_of(q).uid)
        /\ flock[p] # flock[q]

\* C21: a session-start called on a handle without module data returns with
\* the module data on the handle exactly when it returns PAM_SUCCESS.
C21_TokenIffSuccess ==
    [][\A p \in Procs :
          (/\ frame[p].pc \in {"o_done", "o_return"} /\ frame'[p].pc = "idle"
           /\ "token" \notin frame[p].ev)
              => (handle'[p].token <=> ReturnCode(frame[p]) = PAM_SUCCESS)]_vars
\* one session-start has returned PAM_SUCCESS and left the module data, another
\* is at its done label after pam_set_data and a failed privilege drop, the
\* module data cleared again
C21_Witness ==
    \E p \in Procs, q \in Procs :
        /\ Idle(p) /\ handle[p].token /\ handle[p].env # <<>>
        /\ frame[q].pc = "o_done" /\ "dropfail" \in frame[q].ev
        /\ "token" \notin frame[q].ev /\ ~handle[q].token

\* C22: a session-end called (as root) on a handle that carries the module
\* data returns with the module data cleared, whatever it returns.
C22_TokenCleared ==
    [][\A p \in Procs :
          (/\ frame[p].pc \in {"c_done", "c_return"} /\ frame'[p].pc = "idle"
           /\ "token" \in frame[p].ev /\ frame[p].euid0 = 0)
              => ~handle'[p].token]_vars

\* C23: rmrf called on a directory that holds a tree of directories and
\* regular files, or on a regular file, returns 0 and leaves neither the path
\* nor anything below it; whatever lies elsewhere is as it was.
C23_RemovesTree ==
    \A p \in Procs :
        frame[p].pc = "c_write"
            => /\ "rmfail" \notin frame[p].ev /\ frame[p].count = 0
               /\ \A q \in DOMAIN fs : ~IsUnder(q, TreeRoot)
               /\ \A q \in DOMAIN frame[p].old :
                     ~IsUnder(q, TreeRoot)
                         => q \in DOMAIN fs /\ fs[q] = frame[p].old[q]
\* rmrf has returned from a tree three directories deep with a file at the
\* bottom and files next to the directories
C23_Witness ==
    \E p \in Procs :
        /\ frame[p].pc = "c_write"
        /\ LET at(q) == IF TreeRoot \o q \in DOMAIN frame[p].old
                        THEN frame[p].old[TreeRoot \o q].kind ELSE "none"
           IN  /\ at(<<"/", "a", "/", "c", "/", "e">>) = "file"
               /\ at(<<"/", "a", "/", "d">>) = "file"
               /\ at(<<"/", "b", "/", "f">>) = "dir"
        /\ TreeRoot \notin DOMAIN fs

\* C24: when write_counter (fd, n), n >= 0, returns 0, whatever the file held
\* before and however the write () calls split the bytes, the file is as long
\* as n has decimal digits and read_counter on it returns n.
C24_WriteThenRead ==
    \A p \in Procs :
        (frame[p].pc = "w_done" /\ frame[p].count >= 0 /\ frame[p].r = 0)
            => /\ Len(Data(fs, frame[p].fd)) = intlen(frame[p].count)
               /\ read_counter(Data(fs, frame[p].fd), FALSE) = frame[p].count

\* C25: read_counter answers 0 for an empty file, -2 (the sentinel) exactly
\* when the file is the single byte "-", the number the bytes denote when all
\* of them are decimal digits, and -1 (corrupt) for every other content.
C25_ReadClassifies ==
    \A p \in Procs :
        frame[p].pc = "r_done"
            => LET data == Data(fs, frame[p].fd)
               IN  frame[p].count =
                       IF data = <<>> THEN 0
                       ELSE IF data = <<"-">> THEN -2
                       ELSE IF \A i \in 1..Len(data) : DigitValue(data[i]) >= 0
                       THEN DecimalValue(data)
                       ELSE -1

C27_DirIffCounted ==
    \A u \in Uids :
        (\A p \in Known : pw_of(p).uid = u => Idle(p))
            => (Exists(fs, DocumentedDir(u)) <=> CounterValue(fs, u) > 0)

\* C28: when the removal of an entry fails (here: the stat of a dangling
\* symbolic link), rmrf still visits every other entry of the directory and
\* tries the rmdir, and returns a failure: before the rmdir of a directory all
\* its entries have been visited, and when rmrf is back in the hook it has
\* failed and exactly the links and the directories above them are left.
C28_BestEffort ==
    \A p \in Procs :
        LET old == frame[p].old
            kept == {q \in DOMAIN old :
                        \E l \in DOMAIN old : old[l].kind = "link" /\ IsUnder(l, q)}
        IN  /\ (frame[p].pc = "c_rmrf" /\ Top(frame[p]).pc = "rmdir")
                  => {Basename(c) : c \in Children(old, Top(frame[p]).path)}
                         \subseteq Top(frame[p]).seen
            /\ frame[p].pc = "c_write"
                  => /\ "rmfail" \in frame[p].ev /\ frame[p].count = -1
                     /\ \A q \in DOMAIN old :
                           IsUnder(q, TreeRoot) => (q \in DOMAIN fs <=> q \in kept)
\* rmrf has failed on a link in a subdirectory: the files next to the link
\* and next to the subdirectory are gone, the link and the directories above
\* it are left
C28_Witness ==
    \E p \in Procs :
        /\ frame[p].pc = "c_write" /\ "rmfail" \in frame[p].ev
        /\ LET was(q) == IF TreeRoot \o q \in DOMAIN frame[p].old
                         THEN frame[p].old[TreeRoot \o q].kind ELSE "none"
               is(q) == TreeRoot \o q \in DOMAIN fs
           IN  /\ was(<<"/", "a", "/", "c">>) = "link" /\ is(<<"/", "a", "/", "c">>)
               /\ was(<<"/", "a", "/", "d">>) = "file" /\ ~is(<<"/", "a", "/", "d">>)
               /\ was(<<"/", "b">>) = "file" /\ ~is(<<"/", "b">>)
               /\ is(<<"/", "a">>) /\ is(<<>>)

\* C29: whenever no hook of an identity is running, the counter of the
\* identity (a missing or empty file and the sentinel reading 0) equals the
\* number of handles of that identity that carry the module data.
C29_CounterCountsTokens ==
    \A u \in Uids :
        (\A p \in Known : pw_of(p).uid = u => Idle(p))
            => CounterValue(fs, u)
                   = Cardinality({p \in Known : pw_of(p).uid = u /\ handle[p].token})

\* C30: a step in which the runtime directory of an identity comes into being
\* or goes is the mkdir of a session-start or the rmrf of a session-end of
\* that identity, taken by a process that holds the lock of the identity's
\* counter file, after its read of the counter, and that still holds it after
\* the step.
C30_DirOnlyUnderLock ==
    [][\A u \in Uids :
          (/\ DOMAIN fs' # DOMAIN fs
           /\ \E d \in {RuntimeDir(u), DocumentedDir(u)} :
                 (d \in DOMAIN fs) # (d \in DOMAIN fs'))
              => \E p \in Known :
                    /\ pw_of(p).uid = u
                    /\ frame'[p] # frame[p]
                    /\ frame[p].pc \in {"o_mkdir", "c_update"}
                    /\ flock[p] = CounterFile(u) /\ flock'[p] = CounterFile(u)
                    /\ frame[p].fd = CounterFile(u)]_vars
\* a session-end of a handle whose session-start had succeeded has removed
\* the directory and still holds the lock
C30_Witness ==
    \E p \in Known :
        /\ frame[p].pc = "c_done" /\ handle[p].env # <<>>
        /\ "rmrf" \in frame[p].ev /\ frame[p].ev \cap {"rmfail", "absent"} = {}
        /\ ~Exists(fs, RuntimeDir(pw_of(p).uid))
        /\ flock[p] = CounterFile(pw_of(p).uid)

\* C31: with the parent directory as ensure_parent_dir leaves it (root's,
\* mode 0755) and no runtime directory of the user there yet, the mkdir that
\* session-start issues with the effective uid and gid of a user other than
\* root succeeds, and the hook goes on to pam_putenv.
C31_UserMayCreate ==
    [][\A p \in Known :
          (/\ frame[p].pc = "o_mkdir" /\ frame'[p] # frame[p]
           /\ pw_of(p).uid # 0
           /\ cred[p] = [euid |-> pw_of(p).uid, egid |-> pw_of(p).gid]
           /\ PARENT_DIR \in DOMAIN fs
           /\ fs[PARENT_DIR] = DirNode(0, 0, <<7, 5, 5>>)
           /\ DocumentedDir(pw_of(p).uid) \notin DOMAIN fs
           /\ RuntimeDir(pw_of(p).uid) \notin DOMAIN fs)
              => /\ "mkfail" \notin frame'[p].ev
                 /\ frame'[p].pc = "o_env"]_vars

====
